---- MODULE Spec2Model ----
(***************************************************************************)
(* A model of chuk-virtual-shell-pyodide-host: the raw-mode line reader    *)
(* that nodepy.input installs (ioHandlers.js), the recursive copy of a     *)
(* host package tree into the Pyodide filesystem (pyodideFs.js), the       *)
(* package directory lookup and the start-up sequence (pyodideShell.js).   *)
(*                                                                         *)
(* Strings whose characters matter are sequences of UTF-16 code units      *)
(* (terminal input) or sequences of characters (file names).               *)
(***************************************************************************)
EXTENDS Integers, Sequences, FiniteSets, TLC

VARIABLES
  rawMode,    \* process.stdin is in raw mode (setRawMode)
  flowing,    \* process.stdin is resumed (resume/pause)
  listeners,  \* the "data" listeners of process.stdin, in registration order:
              \* each is the onData closure of one nodepy.input call
  reads,      \* one record per nodepy.input call: its closure variable
              \* `input`, the state of its promise, what its onData was fed
  echo,       \* what the handlers of the latest step wrote to process.stdout
  hostFs,     \* the host filesystem: path |-> [kind, entries, err]
  vfs,        \* the Pyodide filesystem: the directories and files it holds
  loaded,     \* how the latest loadPythonModules call ended
  options,    \* the options object given to runPyodideShell
  env,        \* process.env
  resolved,   \* what loadVirtualShell found: moduleDir, packageName or the
              \* error it threw
  pc,         \* where runPyodideShell stands: the call it awaits
  log,        \* the stages started, completed and failed, in order
  outcome,    \* the promise runPyodideShell returned to its caller
  unhandled,  \* the stages whose rejection no one awaits
  runtime,    \* what the Python side holds
  scriptCall, \* a ScriptManager call: the script body, the path found, the
              \* processed body
  copied,     \* a file transfer: the bytes on the host, the bytes read back
  lookup      \* a ConfigManager.getConfig call

ioVars == <<rawMode, flowing, listeners, reads, echo>>
fsVars == <<hostFs, vfs, loaded>>
locVars == <<options, env, resolved>>
shVars == <<pc, log, outcome, unhandled, runtime>>
callVars == <<scriptCall, copied, lookup>>

vars == <<rawMode, flowing, listeners, reads, echo, hostFs, vfs, loaded,
          options, env, resolved, pc, log, outcome, unhandled, runtime,
          scriptCall, copied, lookup>>

(***************************************************************************)
(* Bounds of the model.                                                    *)
(***************************************************************************)
MaxReads == 2         \* nodepy.input calls in one run
MaxEvents == 3        \* "data" events in one run, any chunk
MaxLineEvents == 6    \* "data" events in one run, single keystrokes of a line
MaxNodes == 3         \* entries below the package directory on the host
MaxErrs == 1          \* host entries on which an operation fails

(***************************************************************************)
(* ioHandlers.js: the characters onData tells apart.                       *)
(***************************************************************************)
CR == 13
LF == 10
ETX == 3
DEL == 127
BS == 8
Space == 32
Tilde == 126

\* Other code units used as input: "h", "i", ESC and U+00E9.
Key == [h |-> 104, i |-> 105, esc |-> 27, eacute |-> 233]

\* One keystroke per "data" event, as a terminal in raw mode delivers them.
Keystrokes ==
  {<<Key.h>>, <<Key.i>>, <<Tilde>>, <<CR>>, <<LF>>, <<ETX>>, <<DEL>>, <<BS>>,
   <<Key.esc>>, <<Key.eacute>>}

\* "data" events that carry several characters (pasted text, an escape
\* sequence, keys typed while the process was busy).
Pasted ==
  {<<Key.h, Key.i>>, <<Key.h, LF>>, <<Key.i, ETX>>, <<Key.esc, Key.h>>, <<Tilde, Key.h>>,
   <<LF, Key.h>>}

Chunks == Keystrokes \cup Pasted

\* The keys of one edited line.
LineKeys == {<<Key.h>>, <<Key.i>>, <<DEL>>, <<BS>>, <<LF>>, <<ETX>>}

(***************************************************************************)
(* JavaScript's <= on strings: lexicographic on the code units.            *)
(***************************************************************************)
RECURSIVE StrLE(_, _)
StrLE(a, b) ==
  IF a = <<>> THEN TRUE
  ELSE IF b = <<>> THEN FALSE
  ELSE IF Head(a) < Head(b) THEN TRUE
  ELSE IF Head(a) > Head(b) THEN FALSE
  ELSE StrLE(Tail(a), Tail(b))

\* The guard of onData's default case: char >= " " && char <= "~".
InPrintableRange(char) == StrLE(<<Space>>, char) /\ StrLE(char, <<Tilde>>)

\* A slip in the slice: input.slice(1) drops the first character.
SliceOffFirst(s) == SubSeq(s, 2, Len(s))

\* input.slice(0, -1)
SliceOffLast(s) == SubSeq(s, 1, Len(s) - 1)

\* A removal that removes nothing.
KeepListener(ls, id) == ls

\* listeners with `id` removed (removeListener).
RemoveListener(ls, id) == SelectSeq(ls, LAMBDA x : x # id)

(***************************************************************************)
(* The terminal side of the program as one record, so that the effect of   *)
(* one handler can be passed to the next handler of the same event.        *)
(***************************************************************************)
IoState == [rawMode |-> rawMode, flowing |-> flowing, listeners |-> listeners,
            reads |-> reads, echo |-> <<>>]

\* resolve(input) of the promise of read `id`: only the first call settles it.
Resolve(rd, value) ==
  [rd EXCEPT !.status = "resolved",
             !.result = IF rd.status = "pending" THEN value ELSE rd.result,
             !.resolves = rd.resolves + 1]

\* A handler that resolves without leaving raw mode or removing itself.
FinishStillCapturing(io, id, value, written) ==
  [io EXCEPT !.echo = io.echo \o <<written>>,
             !.reads[id] = Resolve([io.reads[id] EXCEPT !.input = value], value)]

\* case "\r": case "\n": and case "\u0003": after the write to stdout.
Finish(io, id, value, written) ==
  [io EXCEPT !.echo = io.echo \o <<written>>,
             !.rawMode = FALSE,
             !.flowing = FALSE,
             !.listeners = RemoveListener(io.listeners, id),
             !.reads[id] = Resolve([io.reads[id] EXCEPT !.input = value], value)]

\* onData(char) of the read `id`.
OnData(io, id, char) ==
  LET rd == io.reads[id]
      fed == [io EXCEPT !.reads[id].fed = Append(rd.fed, char)]
  IN  CASE char = <<CR>> \/ char = <<LF>> ->
             Finish(fed, id, rd.input, <<LF>>)
        [] char = <<ETX>> ->
             Finish(fed, id, <<>>, <<94, 67, LF>>)
        [] char = <<DEL>> \/ char = <<BS>> ->
             IF Len(rd.input) > 0
             THEN [fed EXCEPT !.echo = io.echo \o <<(<<BS, Space, BS>>)>>,
                              !.reads[id].input = SliceOffLast(rd.input)]
             ELSE fed
        [] OTHER ->
             IF InPrintableRange(char)
             THEN [fed EXCEPT !.echo = io.echo \o <<char>>,
                              !.reads[id].input = rd.input \o char]
             ELSE fed

\* An emitter that calls the first listener only.
EmitToFirst(io, ls, char) ==
  IF ls = <<>> THEN io ELSE OnData(io, Head(ls), char)

\* EventEmitter.emit("data", char): the listeners registered when the event
\* is emitted are called in order, each seeing what the earlier ones did.
RECURSIVE Emit(_, _, _)
Emit(io, ls, char) ==
  IF ls = <<>> THEN io ELSE Emit(OnData(io, Head(ls), char), Tail(ls), char)

(***************************************************************************)
(* Actions of the terminal side.                                           *)
(***************************************************************************)
IdleIO ==
  /\ rawMode = FALSE
  /\ flowing = FALSE
  /\ listeners = <<>>
  /\ reads = <<>>
  /\ echo = <<>>

\* nodepy.input(_prompt): the executor of the promise it returns.
ReadLine ==
  /\ Len(reads) < MaxReads
  /\ rawMode' = TRUE
  /\ flowing' = TRUE
  /\ reads' = Append(reads, [input |-> <<>>, status |-> "pending",
                             result |-> <<>>, resolves |-> 0, fed |-> <<>>])
  /\ listeners' = Append(listeners, Len(reads) + 1)
  /\ echo' = <<>>

\* process.stdin emits "data" with `char`; a paused stream emits nothing.
Data(char) ==
  /\ flowing
  /\ LET io == Emit(IoState, listeners, char)
     IN  /\ rawMode' = io.rawMode
         /\ flowing' = io.flowing
         /\ listeners' = io.listeners
         /\ reads' = io.reads
         /\ echo' = io.echo

(***************************************************************************)
(* The host filesystem and the Pyodide filesystem (pyodideFs.js).          *)
(*                                                                         *)
(* A file name is a sequence of words and punctuation characters, a path   *)
(* the sequence of its names from the working directory.  A host entry is  *)
(* [kind, entries, err]: entries is what readdirSync lists for a           *)
(* directory, in its order; err names the operation that throws on the     *)
(* entry: "stat" (statSync: a dangling link), "io" (readdirSync of a       *)
(* directory: no permission; readFileSync of a file, or the runPython call *)
(* that writes it: a quote in its name), "mkdir" (the runPython call that  *)
(* makes the Pyodide directory of a host directory) or "none".             *)
(***************************************************************************)
Pkg == <<"proj">>
DotXPy == <<".", "x", ".", "py">>
APy == <<"a", ".", "py">>
PlainD == <<"d">>
DotDot == <<"..">>

FsNames == {DotXPy, APy, PlainD}
Kinds == {"file", "dir"}
Errs == {"stat", "io"}

Dir(entries, err) == [kind |-> "dir", entries |-> entries, err |-> err]
File(err) == [kind |-> "file", entries |-> <<>>, err |-> err]

NoVfs == [dirs |-> {}, files |-> {}]
NotLoaded == [status |-> "none", count |-> 0, written |-> <<>>]

\* path.basename
Basename(p) == p[Len(p)]

\* A walk that descends into hidden directories too.
StartsWithDotNever(file) == FALSE

\* file.startsWith('.')
StartsWithDot(file) == Len(file) > 0 /\ Head(file) = "."

\* file.endsWith(".py")
EndsWithPy(file) ==
  Len(file) >= 2 /\ SubSeq(file, Len(file) - 1, Len(file)) = <<".", "py">>

\* fs.existsSync
ExistsSync(fs, p) == p \in DOMAIN fs /\ fs[p].err # "stat"

NotFound == <<(<<"ENOENT">>)>>

\* locateDirectory(dir): dir, else ../dir, else it throws.
LocateDirectory(fs, dir) ==
  IF ExistsSync(fs, dir) THEN dir
  ELSE IF ExistsSync(fs, <<DotDot>> \o dir) THEN <<DotDot>> \o dir
  ELSE NotFound

Walked(count, written, made, threw) ==
  [count |-> count, written |-> written, made |-> made, threw |-> threw]

\* Every proper prefix of a Pyodide path and the path: os.makedirs.
MakeDirs(p) == {SubSeq(p, 1, k) : k \in 1..Len(p)}

(***************************************************************************)
(* processDirectory(pyodide, currentDir, pyodidePath).  The result is what *)
(* the call returned (count), the files it wrote in order, the Pyodide     *)
(* directories it made, and whether it threw.  WalkEntries is the for loop *)
(* from the entries `files` on, with the count, writes and directories so  *)
(* far in `acc`; an exception in the loop body ends the loop (the catch    *)
(* around the loop logs it) and the function returns the count so far.     *)
(***************************************************************************)
RECURSIVE ProcessDirectory(_, _, _), WalkEntries(_, _, _, _, _)

WalkEntries(fs, currentDir, pyodidePath, files, acc) ==
  IF files = <<>> THEN acc
  ELSE
    LET file == Head(files)
        fullPath == Append(currentDir, file)
        pyodideFilePath == Append(pyodidePath, file)
        rest == Tail(files)
    IN  IF StartsWithDot(file)
        THEN WalkEntries(fs, currentDir, pyodidePath, rest, acc)
        ELSE IF fs[fullPath].err = "stat" THEN acc
        ELSE IF fs[fullPath].kind = "dir"
        THEN LET sub == ProcessDirectory(fs, fullPath, pyodideFilePath)
             IN  IF sub.threw THEN acc
                 ELSE WalkEntries(fs, currentDir, pyodidePath, rest,
                        Walked(acc.count + sub.count,
                               acc.written \o sub.written,
                               acc.made \cup sub.made, FALSE))
        ELSE IF EndsWithPy(file)
        THEN IF fs[fullPath].err = "io" THEN acc
             ELSE WalkEntries(fs, currentDir, pyodidePath, rest,
                    Walked(acc.count + 1,
                           Append(acc.written, pyodideFilePath),
                           acc.made \cup MakeDirs(pyodidePath), FALSE))
        ELSE WalkEntries(fs, currentDir, pyodidePath, rest, acc)

ProcessDirectory(fs, currentDir, pyodidePath) ==
  IF fs[currentDir].err = "mkdir"
  THEN Walked(0, <<>>, {}, TRUE)
  ELSE IF fs[currentDir].err = "io"
  THEN Walked(0, <<>>, MakeDirs(pyodidePath), FALSE)
  ELSE WalkEntries(fs, currentDir, pyodidePath, fs[currentDir].entries,
                   Walked(0, <<>>, MakeDirs(pyodidePath), FALSE))

\* loadPythonModules(pyodide, dir, targetDirName): the outcome and the
\* Pyodide filesystem after it.  An empty targetDirName is falsy.
LoadPythonModulesResult(fs, v, dir, targetDirName) ==
  LET moduleDir == LocateDirectory(fs, dir)
      dirBaseName ==
        IF targetDirName # <<>> THEN targetDirName ELSE Basename(moduleDir)
      walk == ProcessDirectory(fs, moduleDir, <<dirBaseName>>)
  IN  IF moduleDir = NotFound \/ walk.threw
      THEN [outcome |-> [status |-> "threw", count |-> 0, written |-> <<>>],
            vfs |-> v]
      ELSE [outcome |-> [status |-> "returned", count |-> walk.count,
                         written |-> walk.written],
            vfs |-> [dirs |-> v.dirs \cup walk.made,
                     files |-> v.files \cup {walk.written[k] :
                                             k \in 1..Len(walk.written)}]]

(***************************************************************************)
(* Actions on the filesystems.                                             *)
(***************************************************************************)
\* The host holds the package directory here, in the parent directory, or
\* nowhere; the Pyodide directory of the package may be one that cannot be
\* made.
PkgAt(p, err) ==
  [q \in {SubSeq(p, 1, k) : k \in 0..Len(p)} |->
     IF q = p THEN Dir(<<>>, err) ELSE Dir(<<p[Len(q) + 1]>>, "none")]

InitHosts ==
  {PkgAt(p, "none") : p \in {<<Pkg>>, <<DotDot, Pkg>>}}
    \cup {PkgAt(<<Pkg>>, "mkdir"), PkgAt(<<>>, "none")}

IdleFs ==
  /\ hostFs = PkgAt(<<>>, "none")
  /\ vfs = NoVfs
  /\ loaded = NotLoaded

InitFs ==
  /\ hostFs \in InitHosts
  /\ vfs = NoVfs
  /\ loaded = NotLoaded

\* The package directory of the host, if there is one.
PkgRoot(fs) == LocateDirectory(fs, <<Pkg>>)
Below(p, root) ==
  Len(p) > Len(root) /\ SubSeq(p, 1, Len(root)) = root
PkgNodes(fs) == {p \in DOMAIN fs : Below(p, PkgRoot(fs))}
ErrNodes(fs) == {p \in DOMAIN fs : fs[p].err # "none"}

\* Before the program runs: an entry appears in a directory of the package
\* of the working directory.
HostAdd(parent, name, kind, err) ==
  /\ loaded.status = "none"
  /\ PkgRoot(hostFs) = <<Pkg>>
  /\ hostFs[<<Pkg>>].err = "none"
  /\ parent \in PkgNodes(hostFs) \cup {<<Pkg>>}
  /\ hostFs[parent].kind = "dir"
  /\ Append(parent, name) \notin DOMAIN hostFs
  /\ Cardinality(PkgNodes(hostFs)) < MaxNodes
  /\ err # "none" => Cardinality(ErrNodes(hostFs)) < MaxErrs
  /\ hostFs' =
       [p \in DOMAIN hostFs \cup {Append(parent, name)} |->
          IF p = Append(parent, name)
          THEN IF kind = "dir" THEN Dir(<<>>, err) ELSE File(err)
          ELSE IF p = parent
          THEN [hostFs[p] EXCEPT !.entries = Append(@, name)]
          ELSE hostFs[p]]
  /\ UNCHANGED <<vfs, loaded>>

\* loadPythonModules(pyodide, dir, targetDirName)
LoadPythonModules(dir, targetDirName) ==
  /\ loaded.status = "none"
  /\ LET r == LoadPythonModulesResult(hostFs, vfs, dir, targetDirName)
     IN  /\ loaded' = r.outcome
         /\ vfs' = r.vfs
  /\ UNCHANGED hostFs

NextFs ==
  \/ \E parent \in DOMAIN hostFs, name \in FsNames, kind \in Kinds,
        err \in Errs \cup {"none"} :
       HostAdd(parent, name, kind, err) /\ UNCHANGED <<ioVars, locVars, shVars, callVars>>
  \/ \E targetDirName \in {<<>>, Pkg} :
       /\ LoadPythonModules(<<Pkg>>, targetDirName)
       /\ UNCHANGED <<ioVars, locVars, shVars, callVars>>


(***************************************************************************)
(* pyodideShell.js: locateVirtualShellDirectory and the synchronous head   *)
(* of loadVirtualShell.                                                    *)
(***************************************************************************)
ChukUS == <<"chuk", "_", "virtual", "_", "shell">>
ChukHy == <<"chuk", "-", "virtual", "-", "shell">>
InitPy == <<"__init__", ".", "py">>
AppDir == <<"app">>
NodeModules == <<"node_modules">>

\* An absent option or environment variable (undefined or "": falsy).
Unset == <<>>

\* An options object and an environment with nothing set.
NoOptions ==
  [pythonModulePath |-> Unset, configPath |-> Unset, sandboxName |-> Unset,
   useEnhancedScript |-> FALSE, customScriptPath |-> Unset,
   defaultSandbox |-> Unset]
NoEnv ==
  [CHUK_VIRTUAL_SHELL_PATH |-> Unset, CHUK_VIRTUAL_SHELL_CONFIG |-> Unset]

\* A replace that changes nothing.
KeepHyphens(name) == name

\* .replace(/-/g, '_')
ReplaceHyphens(name) ==
  [k \in 1..Len(name) |-> IF name[k] = "-" THEN "_" ELSE name[k]]

IsDirectory(fs, p) == fs[p].kind = "dir"

\* A check that takes every directory for a package.
IsValidAnyDirectory(fs, dirPath) ==
  ExistsSync(fs, dirPath) /\ IsDirectory(fs, dirPath)

\* isValidPythonModule(dirPath)
IsValidPythonModule(fs, dirPath) ==
  IF ~ExistsSync(fs, dirPath) \/ ~IsDirectory(fs, dirPath) THEN FALSE
  ELSE IF ExistsSync(fs, Append(dirPath, InitPy)) THEN TRUE
  ELSE IF fs[dirPath].err = "io" THEN FALSE
  ELSE \E k \in 1..Len(fs[dirPath].entries) : EndsWithPy(fs[dirPath].entries[k])

\* possibleLocations, after .filter(Boolean)
PossibleLocations(e) ==
  SelectSeq(<<(<<ChukUS>>), <<DotDot, ChukUS>>,
              <<AppDir, NodeModules, ChukHy>>, e.CHUK_VIRTUAL_SHELL_PATH>>,
            LAMBDA location : location # Unset)

\* The Error thrown when the loop finds nothing: its text, and the paths
\* that are written into the text (none).
NoModuleError ==
  [text |-> "Error: could not find 'chuk_virtual_shell' Python module. Please specify a valid path.",
   names |-> {}]
NoDirectoryError(dir) ==
  [text |-> "Could not find directory at ${dir} or ${parentDir}",
   names |-> {dir, <<DotDot>> \o dir}]
RunPythonError == [text |-> "PythonError", names |-> {}]

Found(dir) == [found |-> TRUE, dir |-> dir, error |-> NoModuleError]
Thrown(error) == [found |-> FALSE, dir |-> NotFound, error |-> error]

\* The for loop over possibleLocations.
RECURSIVE FirstValid(_, _)
FirstValid(fs, locations) ==
  IF locations = <<>> THEN Thrown(NoModuleError)
  ELSE IF ExistsSync(fs, Head(locations))
          /\ IsValidPythonModule(fs, Head(locations))
  THEN Found(Head(locations))
  ELSE FirstValid(fs, Tail(locations))

\* locateVirtualShellDirectory(options)
LocateVirtualShellDirectory(fs, o, e) ==
  IF o.pythonModulePath # Unset /\ ExistsSync(fs, o.pythonModulePath)
  THEN LET outerPath == o.pythonModulePath
           baseName == ReplaceHyphens(Basename(outerPath))
           innerPath == Append(outerPath, baseName)
       IN  IF ExistsSync(fs, innerPath) /\ IsDirectory(fs, innerPath)
           THEN Found(innerPath)
           ELSE Found(outerPath)
  ELSE FirstValid(fs, PossibleLocations(e))

NotResolved ==
  [status |-> "none", moduleDir |-> NotFound, packageName |-> Unset,
   error |-> NoModuleError]

\* loadVirtualShell up to its first await: the directory, the package name,
\* the copy of the package; what it leaves in `resolved`, `loaded`, `vfs`.
LoadVirtualShellHead(fs, v, o, e) ==
  LET located == LocateVirtualShellDirectory(fs, o, e)
      moduleDir == located.dir
      packageName == Basename(moduleDir)
      copy == LoadPythonModulesResult(fs, v, moduleDir, packageName)
  IN  IF ~located.found
      THEN [resolved |-> [NotResolved EXCEPT !.status = "threw",
                                             !.error = located.error],
            loaded |-> NotLoaded, vfs |-> v]
      ELSE IF copy.outcome.status = "threw"
      THEN [resolved |-> [status |-> "threw", moduleDir |-> moduleDir,
                          packageName |-> packageName,
                          error |-> IF LocateDirectory(fs, moduleDir) = NotFound
                                    THEN NoDirectoryError(moduleDir)
                                    ELSE RunPythonError],
            loaded |-> copy.outcome, vfs |-> copy.vfs]
      ELSE [resolved |-> [status |-> "ok", moduleDir |-> moduleDir,
                          packageName |-> packageName,
                          error |-> NoModuleError],
            loaded |-> copy.outcome, vfs |-> copy.vfs]

(***************************************************************************)
(* The hosts the lookup is run on: a host is given by the files and        *)
(* directories it holds (the directories above them come with them).       *)
(***************************************************************************)
Fact(p, kind) == [path |-> p, kind |-> kind]

RECURSIVE SeqOfSet(_)
SeqOfSet(S) ==
  IF S = {} THEN <<>>
  ELSE LET x == CHOOSE y \in S : TRUE IN <<x>> \o SeqOfSet(S \ {x})

HostOf(facts) ==
  LET all == UNION {{SubSeq(f.path, 1, k) : k \in 0..Len(f.path)} : f \in facts}
               \cup {<<>>}
      isFile(p) == \E f \in facts : f.path = p /\ f.kind = "file"
      children(p) == {q \in all : Len(q) = Len(p) + 1 /\ SubSeq(q, 1, Len(p)) = p}
  IN  [p \in all |->
         IF isFile(p) THEN File("none")
         ELSE Dir(SeqOfSet({Basename(q) : q \in children(p)}), "none")]

MyPkg == <<"my", "-", "pkg">>
MyPkgUS == <<"my", "_", "pkg">>
OptDir == <<"opt">>

\* The name a package directory has inside a distribution directory.
InnerName(p) == IF Basename(p) = MyPkg THEN MyPkgUS ELSE Basename(p)

\* What may be at the path given as pythonModulePath.
CandidateStates ==
  {"absent", "file", "flat", "innerFile", "nested", "nestedTwice", "sameName"}
AtCandidate(p, state) ==
  CASE state = "absent" -> {}
    [] state = "file" -> {Fact(p, "file")}
    [] state = "flat" -> {Fact(Append(p, APy), "file")}
    [] state = "innerFile" -> {Fact(Append(p, InnerName(p)), "file")}
    [] state = "nested" -> {Fact(p \o <<InnerName(p), APy>>, "file")}
    [] state = "nestedTwice" ->
         {Fact(p \o <<InnerName(p), InnerName(p), APy>>, "file")}
    [] state = "sameName" -> {Fact(p \o <<Basename(p), APy>>, "file")}

\* What may be at a fallback location.
LocationStates == {"absent", "file", "empty", "init", "py", "nopy"}
AtLocation(p, state) ==
  CASE state = "absent" -> {}
    [] state = "file" -> {Fact(p, "file")}
    [] state = "empty" -> {Fact(p, "dir")}
    [] state = "init" -> {Fact(Append(p, InitPy), "file")}
    [] state = "py" -> {Fact(Append(p, APy), "file")}
    [] state = "nopy" -> {Fact(Append(p, PlainD), "file")}

IdleLoc ==
  /\ options = NoOptions
  /\ env = NoEnv
  /\ resolved = NotResolved

InitLocate ==
  /\ \E path \in {Unset, <<Pkg>>, <<MyPkg>>}, envPath \in {Unset, <<OptDir, ChukUS>>} :
       /\ options = [NoOptions EXCEPT !.pythonModulePath = path]
       /\ env = [NoEnv EXCEPT !.CHUK_VIRTUAL_SHELL_PATH = envPath]
       /\ \E c \in CandidateStates, l1, l2, l3, l4 \in LocationStates :
            /\ path = Unset => c = "absent"
            /\ envPath = Unset => l4 = "absent"
            /\ hostFs = HostOf(
                 (IF path = Unset THEN {} ELSE AtCandidate(path, c))
                   \cup AtLocation(<<ChukUS>>, l1)
                   \cup AtLocation(<<DotDot, ChukUS>>, l2)
                   \cup AtLocation(<<AppDir, NodeModules, ChukHy>>, l3)
                   \cup (IF envPath = Unset THEN {}
                         ELSE AtLocation(envPath, l4)))
  /\ vfs = NoVfs
  /\ loaded = NotLoaded
  /\ resolved = NotResolved

\* loadVirtualShell: locate the directory, name the package, copy it.
ResolvePackage ==
  /\ resolved.status = "none"
  /\ LET r == LoadVirtualShellHead(hostFs, vfs, options, env)
     IN  /\ resolved' = r.resolved
         /\ loaded' = r.loaded
         /\ vfs' = r.vfs
  /\ UNCHANGED <<hostFs, options, env>>

(***************************************************************************)
(* pyodideFs.js loadFolder, scriptManager.js ScriptManager and the         *)
(* configuration folder of pyodideShell.js loadConfiguration.              *)
(***************************************************************************)
Config == <<"config">>
HomeConfig == <<(<<"home">>), <<"pyodide">>, Config>>
PythonScripts == <<"python_scripts">>
Src == <<"src">>
EnhancedPy == <<"pyodide_enhanced_main", ".", "py">>
BasicPy == <<"pyodide_basic_main", ".", "py">>
MainPy == <<"pyodide_main", ".", "py">>
ShellInterpreterPy == <<"shell_interpreter", ".", "py">>
AiSandbox == <<"ai_sandbox">>
MySandbox == <<"my_sandbox">>

Copied(written, made, threw) ==
  [written |-> written, made |-> made, threw |-> threw]

(***************************************************************************)
(* loadFolder(pyodide, folderPath, destPath): the files written, the       *)
(* Pyodide directories made, and whether it threw (nothing catches inside  *)
(* it; what was written before the throw stays written).                   *)
(***************************************************************************)
\* A loop that copies the files of the folder and passes over its
\* subdirectories.
RECURSIVE LoadDirectEntries(_, _, _, _, _)
LoadDirectEntries(fs, folderPath, destPath, files, acc) ==
  IF files = <<>> THEN acc
  ELSE IF fs[Append(folderPath, Head(files))].kind = "dir"
  THEN LoadDirectEntries(fs, folderPath, destPath, Tail(files), acc)
  ELSE LoadDirectEntries(fs, folderPath, destPath, Tail(files),
         Copied(Append(acc.written, Append(destPath, Head(files))),
                acc.made \cup MakeDirs(destPath), FALSE))

RECURSIVE LoadFolder(_, _, _), LoadFolderEntries(_, _, _, _, _)

LoadFolderEntries(fs, folderPath, destPath, files, acc) ==
  IF files = <<>> THEN acc
  ELSE
    LET file == Head(files)
        fullPath == Append(folderPath, file)
        destFilePath == Append(destPath, file)
    IN  IF fs[fullPath].err = "stat" THEN [acc EXCEPT !.threw = TRUE]
        ELSE IF fs[fullPath].kind = "dir"
        THEN LET sub == LoadFolder(fs, fullPath, destFilePath)
                 sofar == Copied(acc.written \o sub.written,
                                 acc.made \cup sub.made, sub.threw)
             IN  IF sub.threw THEN sofar
                 ELSE LoadFolderEntries(fs, folderPath, destPath, Tail(files),
                                        sofar)
        ELSE IF fs[fullPath].err = "io" THEN [acc EXCEPT !.threw = TRUE]
        ELSE LoadFolderEntries(fs, folderPath, destPath, Tail(files),
               Copied(Append(acc.written, destFilePath),
                      acc.made \cup MakeDirs(destPath), FALSE))

LoadFolder(fs, folderPath, destPath) ==
  IF ~ExistsSync(fs, folderPath) THEN Copied(<<>>, {}, TRUE)
  ELSE IF fs[folderPath].err = "mkdir" THEN Copied(<<>>, {}, TRUE)
  ELSE IF fs[folderPath].kind = "file" \/ fs[folderPath].err = "io"
  THEN Copied(<<>>, MakeDirs(destPath), TRUE)
  ELSE LoadFolderEntries(fs, folderPath, destPath, fs[folderPath].entries,
                         Copied(<<>>, MakeDirs(destPath), FALSE))

\* The first path of a list that exists.
RECURSIVE FirstExisting(_, _)
FirstExisting(fs, paths) ==
  IF paths = <<>> THEN NotFound
  ELSE IF ExistsSync(fs, Head(paths)) THEN Head(paths)
  ELSE FirstExisting(fs, Tail(paths))

\* possibleConfigPaths, after .filter(Boolean)
PossibleConfigPaths(e) ==
  SelectSeq(<<(<<ChukUS, Config>>), <<AppDir, Config>>, <<Config>>,
              e.CHUK_VIRTUAL_SHELL_CONFIG>>,
            LAMBDA configPath : configPath # Unset)

\* configFolderPath of loadConfiguration
ConfigFolderPath(fs, o, e) ==
  IF o.configPath # Unset /\ ExistsSync(fs, o.configPath) THEN o.configPath
  ELSE LET found == FirstExisting(fs, PossibleConfigPaths(e))
       IN  IF found # NotFound THEN found ELSE <<AppDir, Config>>

\* fs.mkdirSync(p, { recursive: true }), from the k-th segment of p on.
RECURSIVE MkdirSync(_, _, _)
MkdirSync(fs, p, k) ==
  IF k > Len(p) THEN fs
  ELSE
    LET q == SubSeq(p, 1, k)
        parent == SubSeq(p, 1, k - 1)
    IN  IF q \in DOMAIN fs THEN MkdirSync(fs, p, k + 1)
        ELSE MkdirSync(
               [x \in DOMAIN fs \cup {q} |->
                  IF x = q THEN Dir(<<>>, "none")
                  ELSE IF x = parent
                  THEN [fs[x] EXCEPT !.entries = Append(@, p[k])]
                  ELSE fs[x]],
               p, k + 1)

\* The host after loadConfiguration has settled on its folder.
HostWithConfigFolder(fs, o, e) ==
  IF ExistsSync(fs, ConfigFolderPath(fs, o, e)) THEN fs
  ELSE MkdirSync(fs, ConfigFolderPath(fs, o, e), 1)

\* this.scriptBasePath
ScriptBasePath == <<AppDir, PythonScripts>>

\* A lookup that does not know customScriptPath.
GetBuiltInScriptPath(fs, o, scriptType) ==
  LET scriptFileName == IF scriptType = "enhanced" THEN EnhancedPy ELSE BasicPy
  IN  FirstExisting(fs, <<Append(ScriptBasePath, scriptFileName),
                          <<PythonScripts, scriptFileName>>,
                          <<scriptFileName>>,
                          <<AppDir, Src, scriptFileName>>,
                          Append(ScriptBasePath, BasicPy)>>)

\* getScriptPath(scriptType); NotFound when it throws.
GetScriptPath(fs, o, scriptType) ==
  IF o.customScriptPath # Unset /\ ExistsSync(fs, o.customScriptPath)
  THEN o.customScriptPath
  ELSE LET scriptFileName ==
             IF scriptType = "enhanced" THEN EnhancedPy ELSE BasicPy
       IN  FirstExisting(fs, <<Append(ScriptBasePath, scriptFileName),
                               <<PythonScripts, scriptFileName>>,
                               <<scriptFileName>>,
                               <<AppDir, Src, scriptFileName>>,
                               Append(ScriptBasePath, BasicPy)>>)

\* A script is a sequence of pieces: plain text, or a placeholder ${body}.
Text(body) == [placeholder |-> FALSE, body |-> body]
Placeholder(body) == [placeholder |-> TRUE, body |-> body]

\* What a script file holds.
ScriptContent ==
  <<Text(<<"sandbox", "=">>), Placeholder(<<"defaultSandbox">>),
    Placeholder(<<"options", ".", "defaultSandbox">>),
    Placeholder(<<"sandboxName">>)>>

\* readScript(scriptPath)
ReadScript(fs, scriptPath) ==
  IF fs[scriptPath].kind = "dir" \/ fs[scriptPath].err = "io"
  THEN [threw |-> TRUE, content |-> <<>>]
  ELSE [threw |-> FALSE, content |-> ScriptContent]

\* A replacement that resolves every placeholder, known or not.
ResolveEveryPlaceholder(content, o) ==
  [k \in DOMAIN content |->
     IF content[k].placeholder
     THEN Text(IF o.defaultSandbox # Unset THEN o.defaultSandbox
               ELSE AiSandbox)
     ELSE content[k]]

\* processScriptContent(content)
ProcessScriptContent(content, o) ==
  [k \in DOMAIN content |->
     IF /\ content[k].placeholder
        /\ content[k].body \in {<<"options", ".", "defaultSandbox">>,
                                <<"defaultSandbox">>}
     THEN Text(IF o.defaultSandbox # Unset THEN o.defaultSandbox
               ELSE AiSandbox)
     ELSE content[k]]

(***************************************************************************)
(* pyodideShell.js runPyodideShell.  One action is one stretch of code     *)
(* that runs without giving up control: from a call or from the settling   *)
(* of the awaited runPythonAsync call to the next await.  `log` records    *)
(* when each stage started and how it ended.                               *)
(***************************************************************************)
Stages ==
  <<"resolve", "materialize", "sysPath", "importCheck", "config", "sandbox",
    "installIO", "stageScript", "importHelper", "entryPoint">>

Start(stage) == [stage |-> stage, event |-> "start"]
Done(stage) == [stage |-> stage, event |-> "done"]
Fail(stage) == [stage |-> stage, event |-> "fail"]

Logged(l, e) == \E i \in DOMAIN l : l[i] = e

\* A runPythonAsync call that has been issued and has not settled.
CallPending(l, stage) ==
  Logged(l, Start(stage)) /\ ~Logged(l, Done(stage)) /\ ~Logged(l, Fail(stage))

NoOutcome == [status |-> "pending", stage |-> "none"]
Fulfilled == [status |-> "fulfilled", stage |-> "none"]
Rejected(stage) == [status |-> "rejected", stage |-> stage]

NoRuntime ==
  [nodepy |-> FALSE, input |-> FALSE, sandbox |-> Unset, queued |-> <<>>,
   mainPy |-> <<>>, helper |-> FALSE]

IdleShell ==
  /\ pc = "idle"
  /\ log = <<>>
  /\ outcome = NoOutcome
  /\ unhandled = {}
  /\ runtime = NoRuntime

NoScript ==
  [content |-> <<>>, status |-> "none", path |-> NotFound,
   processed |-> <<>>, done |-> FALSE]
NoCopy == [bytes |-> <<>>, via |-> "none", readBack |-> <<>>]
NoLookup ==
  [configName |-> <<>>, current |-> <<>>, status |-> "none", depth |-> 0,
   result |-> NotFound, exhausted |-> FALSE]

IdleCalls ==
  /\ scriptCall = NoScript
  /\ copied = NoCopy
  /\ lookup = NoLookup

\* A module name Python can parse in `from name.x import y`.
IsIdentifier(name) == \A k \in DOMAIN name : name[k] # "-"

\* The test import can succeed.
Importable(v, packageName) ==
  IsIdentifier(packageName) /\ <<packageName, ShellInterpreterPy>> \in v.files

\* The awaited call of `stage` rejected: every function on the way rethrows.
RejectAt(stage) ==
  /\ log' = Append(log, Fail(stage))
  /\ pc' = "done"
  /\ outcome' = Rejected(stage)

\* runPyodideShell is called: loadVirtualShell up to its first await.
RunPyodideShell ==
  /\ pc = "idle"
  /\ LET r == LoadVirtualShellHead(hostFs, vfs, options, env)
     IN  /\ resolved' = r.resolved
         /\ loaded' = r.loaded
         /\ vfs' = r.vfs
         /\ IF r.resolved.status = "threw" /\ r.resolved.moduleDir = NotFound
            THEN /\ log' = log \o <<Start("resolve"), Fail("resolve")>>
                 /\ pc' = "done"
                 /\ outcome' = Rejected("resolve")
            ELSE IF r.resolved.status = "threw"
            THEN /\ log' = log \o <<Start("resolve"), Done("resolve"),
                                    Start("materialize"), Fail("materialize")>>
                 /\ pc' = "done"
                 /\ outcome' = Rejected("materialize")
            ELSE /\ log' = log \o <<Start("resolve"), Done("resolve"),
                                    Start("materialize"), Done("materialize"),
                                    Start("sysPath")>>
                 /\ pc' = "sysPath"
                 /\ outcome' = outcome
  /\ UNCHANGED <<hostFs, options, env, unhandled, runtime>>

\* The sys.path call settles; the test import is issued.
SysPathDone(ok) ==
  /\ pc = "sysPath"
  /\ IF ok
     THEN /\ log' = log \o <<Done("sysPath"), Start("importCheck")>>
          /\ pc' = "importCheck"
          /\ outcome' = outcome
     ELSE RejectAt("sysPath")
  /\ UNCHANGED <<fsVars, locVars, unhandled, runtime>>

\* The test import settles; loadVirtualShell returns.
ImportCheckDone(ok) ==
  /\ pc = "importCheck"
  /\ ok => Importable(vfs, resolved.packageName)
  /\ IF ok
     THEN /\ log' = Append(log, Done("importCheck"))
          /\ pc' = "loaded"
          /\ outcome' = outcome
     ELSE RejectAt("importCheck")
  /\ UNCHANGED <<fsVars, locVars, unhandled, runtime>>

\* loadConfiguration up to its await, or to its end without sandboxName.
LoadConfiguration ==
  /\ pc = "loaded"
  /\ LET configFolderPath == ConfigFolderPath(hostFs, options, env)
         host == HostWithConfigFolder(hostFs, options, env)
         copy == LoadFolder(host, configFolderPath, HomeConfig)
     IN  /\ hostFs' = host
         /\ vfs' = [dirs |-> vfs.dirs \cup copy.made,
                    files |-> vfs.files \cup {copy.written[k] :
                                              k \in DOMAIN copy.written}]
         /\ IF copy.threw
            THEN /\ log' = log \o <<Start("config"), Fail("config")>>
                 /\ pc' = "done"
                 /\ outcome' = Rejected("config")
            ELSE IF options.sandboxName # Unset
            THEN /\ log' = log \o <<Start("config"), Done("config"),
                                    Start("sandbox")>>
                 /\ pc' = "sandbox"
                 /\ outcome' = outcome
            ELSE /\ log' = log \o <<Start("config"), Done("config")>>
                 /\ pc' = "configured"
                 /\ outcome' = outcome
  /\ UNCHANGED <<loaded, locVars, unhandled, runtime>>

\* The os.environ call settles; loadConfiguration returns.
SandboxDone(ok) ==
  /\ pc = "sandbox"
  /\ IF ok
     THEN /\ log' = Append(log, Done("sandbox"))
          /\ pc' = "configured"
          /\ outcome' = outcome
          /\ runtime' = [runtime EXCEPT !.sandbox = options.sandboxName]
     ELSE RejectAt("sandbox") /\ runtime' = runtime
  /\ UNCHANGED <<fsVars, locVars, unhandled>>

\* setupIOHandlers (registerJsModule; overridePythonIO is called and not
\* awaited), then createAndRunShell up to the await in loadPythonScript.
SetupIOAndStageScript ==
  /\ pc = "configured"
  /\ LET scriptType == IF options.useEnhancedScript THEN "enhanced" ELSE "basic"
         scriptPath == GetScriptPath(hostFs, options, scriptType)
         script == ReadScript(hostFs, scriptPath)
         processedContent == ProcessScriptContent(script.content, options)
     IN  IF scriptPath = NotFound \/ script.threw
         THEN /\ log' = log \o <<Start("installIO"), Start("stageScript"),
                                 Fail("stageScript")>>
              /\ pc' = "done"
              /\ outcome' = Rejected("stageScript")
              /\ runtime' = [runtime EXCEPT !.nodepy = TRUE]
         ELSE /\ log' = log \o <<Start("installIO"), Start("stageScript")>>
              /\ pc' = "stageScript"
              /\ outcome' = outcome
              /\ runtime' = [runtime EXCEPT !.nodepy = TRUE,
                                            !.queued = processedContent]
  /\ UNCHANGED <<fsVars, locVars, unhandled>>

\* The call of overridePythonIO settles, whenever the runtime gets to it.
\* No one holds its promise: a rejection is an unhandled rejection.
OverrideDone(ok) ==
  /\ pc # "exited"
  /\ CallPending(log, "installIO")
  /\ IF ok
     THEN /\ log' = Append(log, Done("installIO"))
          /\ runtime' = [runtime EXCEPT !.input = TRUE]
          /\ unhandled' = unhandled
     ELSE /\ log' = Append(log, Fail("installIO"))
          /\ runtime' = runtime
          /\ unhandled' = unhandled \cup {"installIO"}
  /\ UNCHANGED <<fsVars, locVars, pc, outcome>>

\* The write of pyodide_main.py settles; createAndRunShell locates the
\* package again and issues the import helper.
StageScriptDone(ok) ==
  /\ pc = "stageScript"
  /\ LET located == LocateVirtualShellDirectory(hostFs, options, env)
     IN  IF ~ok
         THEN RejectAt("stageScript") /\ UNCHANGED <<vfs, runtime>>
         ELSE /\ vfs' = [vfs EXCEPT !.files = @ \cup {<<MainPy>>}]
              /\ runtime' = [runtime EXCEPT !.mainPy = runtime.queued]
              /\ IF located.found
                 THEN /\ log' = log \o <<Done("stageScript"),
                                         Start("importHelper")>>
                      /\ pc' = "importHelper"
                      /\ outcome' = outcome
                 ELSE /\ log' = log \o <<Done("stageScript"),
                                         Start("importHelper"),
                                         Fail("importHelper")>>
                      /\ pc' = "done"
                      /\ outcome' = Rejected("importHelper")
  /\ UNCHANGED <<hostFs, loaded, locVars, unhandled>>

\* The import helper settles; the entry point is called.
ImportHelperDone(ok) ==
  /\ pc = "importHelper"
  /\ IF ok
     THEN /\ log' = log \o <<Done("importHelper"), Start("entryPoint")>>
          /\ pc' = "entryPoint"
          /\ outcome' = outcome
          /\ runtime' = [runtime EXCEPT !.helper = TRUE]
     ELSE RejectAt("importHelper") /\ runtime' = runtime
  /\ UNCHANGED <<fsVars, locVars, unhandled>>

\* pyodide_main() returns or raises; runPyodideShell settles.
EntryPointDone(ok) ==
  /\ pc = "entryPoint"
  /\ IF ok
     THEN /\ log' = Append(log, Done("entryPoint"))
          /\ pc' = "done"
          /\ outcome' = Fulfilled
     ELSE RejectAt("entryPoint")
  /\ UNCHANGED <<fsVars, locVars, unhandled, runtime>>

\* Node ends the process on an unhandled rejection (its default since
\* version 15; older versions print a warning and go on).
UnhandledRejection ==
  /\ pc # "exited"
  /\ unhandled # {}
  /\ pc' = "exited"
  /\ UNCHANGED <<fsVars, locVars, log, outcome, unhandled, runtime>>

\* index.js main: the catch around runPyodideShell calls process.exit(1).
MainCatch ==
  /\ pc = "done"
  /\ outcome.status = "rejected"
  /\ pc' = "exited"
  /\ UNCHANGED <<fsVars, locVars, log, outcome, unhandled, runtime>>

\* What may be at a package location when the shell is started.
PackageStates == {"absent", "shell", "flat"}
AtPackage(p, state) ==
  CASE state = "absent" -> {}
    [] state = "shell" -> {Fact(Append(p, ShellInterpreterPy), "file")}
    [] state = "flat" -> {Fact(Append(p, APy), "file")}

\* Where the configuration is.
ConfigStates == {"none", "cwd", "nested", "mixed", "file"}
AtConfig(state) ==
  CASE state = "none" -> {}
    [] state = "cwd" -> {Fact(<<Config, PlainD>>, "file")}
    [] state = "nested" -> {Fact(<<Config, PlainD, APy>>, "file")}
    [] state = "mixed" -> {Fact(<<Config, APy>>, "file"),
                           Fact(<<Config, PlainD, APy>>, "file")}
    [] state = "file" -> {Fact(<<Config>>, "file")}

\* Which scripts the installation holds.
ScriptStates == {"none", "both", "basic", "directory"}
AtScripts(state) ==
  CASE state = "none" -> {}
    [] state = "both" -> {Fact(Append(ScriptBasePath, EnhancedPy), "file"),
                          Fact(Append(ScriptBasePath, BasicPy), "file")}
    [] state = "basic" -> {Fact(Append(ScriptBasePath, BasicPy), "file")}
    [] state = "directory" ->
         {Fact(<<AppDir, PythonScripts, BasicPy, PlainD>>, "file")}

\* The host with the operation `err` failing on p, where p is on the host.
WithErr(fs, p, err) ==
  IF p \in DOMAIN fs THEN [fs EXCEPT ![p].err = err] ELSE fs

InitShell ==
  /\ \E path \in {Unset, <<MyPkg>>}, sandboxName \in {Unset, AiSandbox, MySandbox},
        useEnhancedScript \in BOOLEAN, defaultSandbox \in {Unset, MySandbox} :
       /\ options = [NoOptions EXCEPT !.pythonModulePath = path,
                                      !.sandboxName = sandboxName,
                                      !.useEnhancedScript = useEnhancedScript,
                                      !.defaultSandbox = defaultSandbox]
       /\ \E c, l \in PackageStates, cfg \in ConfigStates,
             scr \in ScriptStates, err \in {"none", "mkdir"} :
            /\ path = Unset => c = "absent"
            /\ hostFs = WithErr(
                 HostOf((IF path = Unset THEN {} ELSE AtPackage(path, c))
                          \cup AtPackage(<<ChukUS>>, l)
                          \cup AtConfig(cfg)
                          \cup AtScripts(scr)),
                 <<ChukUS>>, err)
  /\ env = NoEnv
  /\ vfs = NoVfs
  /\ loaded = NotLoaded
  /\ resolved = NotResolved
  /\ IdleShell

NextShell ==
  \/ RunPyodideShell /\ UNCHANGED <<ioVars, callVars>>
  \/ \E ok \in BOOLEAN : SysPathDone(ok) /\ UNCHANGED <<ioVars, callVars>>
  \/ \E ok \in BOOLEAN : ImportCheckDone(ok) /\ UNCHANGED <<ioVars, callVars>>
  \/ LoadConfiguration /\ UNCHANGED <<ioVars, callVars>>
  \/ \E ok \in BOOLEAN : SandboxDone(ok) /\ UNCHANGED <<ioVars, callVars>>
  \/ SetupIOAndStageScript /\ UNCHANGED <<ioVars, callVars>>
  \/ \E ok \in BOOLEAN : OverrideDone(ok) /\ UNCHANGED <<ioVars, callVars>>
  \/ \E ok \in BOOLEAN : StageScriptDone(ok) /\ UNCHANGED <<ioVars, callVars>>
  \/ \E ok \in BOOLEAN : ImportHelperDone(ok) /\ UNCHANGED <<ioVars, callVars>>
  \/ \E ok \in BOOLEAN : EntryPointDone(ok) /\ UNCHANGED <<ioVars, callVars>>
  \/ UnhandledRejection /\ UNCHANGED <<ioVars, callVars>>
  \/ MainCatch /\ UNCHANGED <<ioVars, callVars>>

InitShellSpec == IdleIO /\ InitShell /\ IdleCalls
SpecShell == InitShellSpec /\ [][NextShell]_vars

(***************************************************************************)
(* loadPythonScript up to its await, on hosts that hold scripts at some of *)
(* the places getScriptPath looks at, and on script bodies of a few        *)
(* pieces.                                                                 *)
(***************************************************************************)
MaxPieces == 2
MaxScripts == 2

Pieces ==
  {Text(<<"print">>), Placeholder(<<"defaultSandbox">>),
   Placeholder(<<"options", ".", "defaultSandbox">>),
   Placeholder(<<"sandboxName">>)}
Contents == UNION {[1..n -> Pieces] : n \in 0..MaxPieces}

CustomPy == <<"custom", ".", "py">>
ScriptLocations ==
  UNION {{Append(ScriptBasePath, name), <<PythonScripts, name>>, <<name>>,
          <<AppDir, Src, name>>} : name \in {EnhancedPy, BasicPy}}

InitScript ==
  /\ \E present \in SUBSET ScriptLocations, custom \in {"unset", "missing", "present"},
        useEnhancedScript \in BOOLEAN, defaultSandbox \in {Unset, MySandbox},
        content \in Contents :
       /\ Cardinality(present) <= MaxScripts
       /\ hostFs = HostOf({Fact(p, "file") : p \in present}
                          \cup (IF custom = "present"
                                THEN {Fact(<<CustomPy>>, "file")} ELSE {}))
       /\ options = [NoOptions EXCEPT
                       !.customScriptPath =
                          IF custom = "unset" THEN Unset ELSE <<CustomPy>>,
                       !.useEnhancedScript = useEnhancedScript,
                       !.defaultSandbox = defaultSandbox]
       /\ scriptCall = [NoScript EXCEPT !.content = content]
  /\ vfs = NoVfs
  /\ loaded = NotLoaded
  /\ env = NoEnv
  /\ resolved = NotResolved
  /\ copied = NoCopy
  /\ lookup = NoLookup

\* loadPythonScript: getScriptPath, readScript (the body the file holds is
\* scriptCall.content), processScriptContent.
LoadPythonScriptHead ==
  /\ scriptCall.status = "none"
  /\ LET scriptType == IF options.useEnhancedScript THEN "enhanced" ELSE "basic"
         scriptPath == GetScriptPath(hostFs, options, scriptType)
     IN  IF scriptPath = NotFound \/ ReadScript(hostFs, scriptPath).threw
         THEN scriptCall' = [scriptCall EXCEPT !.status = "threw",
                                               !.path = scriptPath]
         ELSE scriptCall' =
                [scriptCall EXCEPT
                   !.status = "returned",
                   !.path = scriptPath,
                   !.processed = ProcessScriptContent(scriptCall.content,
                                                      options),
                   !.done = TRUE]
  /\ UNCHANGED <<ioVars, fsVars, locVars, shVars, copied, lookup>>

NextScript == LoadPythonScriptHead

InitScriptSpec == IdleIO /\ InitScript /\ IdleShell
SpecScript == InitScriptSpec /\ [][NextScript]_vars

(***************************************************************************)
(* The content of a transferred file: copyFileToPyodide (base64) and the   *)
(* file branch of loadFolder (JSON.stringify).  A file is a sequence of    *)
(* bytes, a string a sequence of code points below 65536.                  *)
(***************************************************************************)
MaxBytes == 3

Byte == [a |-> 97, quote |-> 34, backslash |-> 92, lf |-> 10,
         c3 |-> 195, a9 |-> 169, ff |-> 255]
FileBytes ==
  {Byte.a, Byte.quote, Byte.backslash, Byte.lf, Byte.c3, Byte.a9, Byte.ff}
Replacement == [char |-> 65533]

IsContinuation(b) == b >= 128 /\ b <= 191

\* Decoding UTF-8 with replacement of what is not UTF-8: fs.readFileSync
\* (path, "utf8").  Sequences of one, two and three bytes; a lead byte of a
\* longer sequence is not among FileBytes.
RECURSIVE Utf8Decode(_)
Utf8Decode(bs) ==
  IF bs = <<>> THEN <<>>
  ELSE
    LET b == Head(bs)
    IN  IF b < 128 THEN <<b>> \o Utf8Decode(Tail(bs))
        ELSE IF b >= 194 /\ b <= 223 /\ Len(bs) >= 2 /\ IsContinuation(bs[2])
        THEN <<(b - 192) * 64 + (bs[2] - 128)>>
               \o Utf8Decode(SubSeq(bs, 3, Len(bs)))
        ELSE IF /\ b >= 224 /\ b <= 239 /\ Len(bs) >= 3
                /\ IsContinuation(bs[2]) /\ IsContinuation(bs[3])
                /\ (b = 224 => bs[2] >= 160)
                /\ (b = 237 => bs[2] <= 159)
        THEN <<(b - 224) * 4096 + (bs[2] - 128) * 64 + (bs[3] - 128)>>
               \o Utf8Decode(SubSeq(bs, 4, Len(bs)))
        ELSE <<Replacement.char>> \o Utf8Decode(Tail(bs))

\* Encoding a string as UTF-8: Buffer.from(content), and Python's write to a
\* file opened with 'w'.
RECURSIVE Utf8Encode(_)
Utf8Encode(cs) ==
  IF cs = <<>> THEN <<>>
  ELSE
    LET c == Head(cs)
    IN  (IF c < 128 THEN <<c>>
         ELSE IF c < 2048 THEN <<192 + (c \div 64), 128 + (c % 64)>>
         ELSE <<224 + (c \div 4096), 128 + ((c \div 64) % 64), 128 + (c % 64)>>)
          \o Utf8Encode(Tail(cs))

\* base64: a text of digits 0..63 and the padding sign.
Pad == [sign |-> 64]

\* buffer.toString("base64")
RECURSIVE Base64Encode(_)
Base64Encode(bs) ==
  IF bs = <<>> THEN <<>>
  ELSE IF Len(bs) = 1
  THEN <<bs[1] \div 4, (bs[1] % 4) * 16, Pad.sign, Pad.sign>>
  ELSE IF Len(bs) = 2
  THEN <<bs[1] \div 4, (bs[1] % 4) * 16 + (bs[2] \div 16),
         (bs[2] % 16) * 4, Pad.sign>>
  ELSE <<bs[1] \div 4, (bs[1] % 4) * 16 + (bs[2] \div 16),
         (bs[2] % 16) * 4 + (bs[3] \div 64), bs[3] % 64>>
         \o Base64Encode(SubSeq(bs, 4, Len(bs)))

\* base64.b64decode
RECURSIVE Base64Decode(_)
Base64Decode(ds) ==
  IF Len(ds) < 4 THEN <<>>
  ELSE
    LET b1 == ds[1] * 4 + (ds[2] \div 16)
        b2 == (ds[2] % 16) * 16 + (ds[3] \div 4)
        b3 == (ds[3] % 4) * 64 + ds[4]
    IN  IF ds[3] = Pad.sign THEN <<b1>>
        ELSE IF ds[4] = Pad.sign THEN <<b1, b2>>
        ELSE <<b1, b2, b3>> \o Base64Decode(SubSeq(ds, 5, Len(ds)))

\* The characters of string literals.
Lit == [quote |-> 34, backslash |-> 92, b |-> 98, f |-> 102, n |-> 110,
        r |-> 114, t |-> 116, u |-> 117, zero |-> 48]
HexDigit(d) == IF d < 10 THEN 48 + d ELSE 87 + d
HexValue(c) == IF c < 58 THEN c - 48 ELSE c - 87

\* The escape JSON.stringify writes for one character.
JsonEscape(c) ==
  IF c = 34 THEN <<Lit.backslash, Lit.quote>>
  ELSE IF c = 92 THEN <<Lit.backslash, Lit.backslash>>
  ELSE IF c = 8 THEN <<Lit.backslash, Lit.b>>
  ELSE IF c = 9 THEN <<Lit.backslash, Lit.t>>
  ELSE IF c = 10 THEN <<Lit.backslash, Lit.n>>
  ELSE IF c = 12 THEN <<Lit.backslash, Lit.f>>
  ELSE IF c = 13 THEN <<Lit.backslash, Lit.r>>
  ELSE IF c < 32
  THEN <<Lit.backslash, Lit.u, Lit.zero, Lit.zero,
         HexDigit(c \div 16), HexDigit(c % 16)>>
  ELSE <<c>>

RECURSIVE JsonEscapeAll(_)
JsonEscapeAll(cs) ==
  IF cs = <<>> THEN <<>> ELSE JsonEscape(Head(cs)) \o JsonEscapeAll(Tail(cs))

\* JSON.stringify(content)
JsonStringify(cs) == <<Lit.quote>> \o JsonEscapeAll(cs) \o <<Lit.quote>>

\* The characters between the quotes of a Python string literal, read as
\* Python reads them.
RECURSIVE PyUnescape(_)
PyUnescape(cs) ==
  IF cs = <<>> THEN <<>>
  ELSE IF Head(cs) # Lit.backslash \/ Len(cs) = 1
  THEN <<Head(cs)>> \o PyUnescape(Tail(cs))
  ELSE IF cs[2] = Lit.u /\ Len(cs) >= 6
  THEN <<HexValue(cs[3]) * 4096 + HexValue(cs[4]) * 256
           + HexValue(cs[5]) * 16 + HexValue(cs[6])>>
         \o PyUnescape(SubSeq(cs, 7, Len(cs)))
  ELSE <<(CASE cs[2] = Lit.b -> 8
            [] cs[2] = Lit.t -> 9
            [] cs[2] = Lit.n -> 10
            [] cs[2] = Lit.f -> 12
            [] cs[2] = Lit.r -> 13
            [] OTHER -> cs[2])>>
         \o PyUnescape(SubSeq(cs, 3, Len(cs)))

\* The value of the literal f.write(...) is given.
PyStringLiteral(lit) == PyUnescape(SubSeq(lit, 2, Len(lit) - 1))

\* copyFileToPyodide: the bytes of the file written in Pyodide.
CopiedAsBase64(bytes) ==
  LET content == Utf8Decode(bytes)
      base64Content == Base64Encode(Utf8Encode(content))
  IN  Utf8Encode(Utf8Decode(Base64Decode(base64Content)))

\* loadFolder, for a file: the bytes of the file written in Pyodide.
CopiedAsLiteral(bytes) ==
  LET content == Utf8Decode(bytes)
      escapedContent == JsonStringify(content)
  IN  Utf8Encode(PyStringLiteral(escapedContent))

InitCopy ==
  /\ \E bytes \in UNION {[1..n -> FileBytes] : n \in 0..MaxBytes} :
       copied = [NoCopy EXCEPT !.bytes = bytes]
  /\ scriptCall = NoScript
  /\ lookup = NoLookup

\* copyFileToPyodide(pyodide, sourcePath, targetPath)
CopyFileToPyodide ==
  /\ copied.via = "none"
  /\ copied' = [copied EXCEPT !.via = "tree",
                              !.readBack = CopiedAsBase64(copied.bytes)]
  /\ UNCHANGED <<ioVars, fsVars, locVars, shVars, scriptCall, lookup>>

\* The else branch of the loop of loadFolder.
LoadFolderFile ==
  /\ copied.via = "none"
  /\ copied' = [copied EXCEPT !.via = "folder",
                              !.readBack = CopiedAsLiteral(copied.bytes)]
  /\ UNCHANGED <<ioVars, fsVars, locVars, shVars, scriptCall, lookup>>

NextCopy == CopyFileToPyodide \/ LoadFolderFile

InitCopySpec == IdleIO /\ IdleFs /\ IdleLoc /\ IdleShell /\ InitCopy
SpecCopy == InitCopySpec /\ [][NextCopy]_vars

(***************************************************************************)
(* configManager.js: ConfigManager.getConfig, one action for each call of  *)
(* getConfig (the call and the calls of itself it makes are frames on the  *)
(* call stack; lookup.depth counts them).  A configuration that was loaded *)
(* is named by the path of its file; NotFound stands for null.             *)
(***************************************************************************)
\* The frames of getConfig the call stack of the engine has room for.
MaxStack == 3

ConfigDir == <<Config>>
DefaultConfig == <<"default">>
ConfigYaml == <<"config", ".", "yaml">>
ConfigYml == <<"config", ".", "yml">>
MyYaml == <<"my", ".", "yaml">>

EndsWithExt(name, ext) ==
  Len(name) >= 2 /\ SubSeq(name, Len(name) - 1, Len(name)) = <<".", ext>>

\* findConfigFile(configName); NotFound when it returns null.
FindConfigFile(fs, configName) ==
  IF /\ EndsWithExt(configName, "yaml") \/ EndsWithExt(configName, "yml")
     /\ ExistsSync(fs, <<configName>>)
  THEN <<configName>>
  ELSE FirstExisting(fs, <<Append(ConfigDir, configName \o <<".", "yaml">>),
                           Append(ConfigDir, configName \o <<".", "yml">>),
                           ConfigDir \o <<configName, ConfigYaml>>,
                           ConfigDir \o <<configName, ConfigYml>>>>)

\* What may be in the configuration directory for one name.
ConfigFileStates ==
  {"none", "yaml", "yml", "dirYaml", "dirYml", "yamlAndYml", "yamlIsDir"}
AtConfigName(name, state) ==
  CASE state = "none" -> {}
    [] state = "yaml" -> {Fact(Append(ConfigDir, name \o <<".", "yaml">>), "file")}
    [] state = "yml" -> {Fact(Append(ConfigDir, name \o <<".", "yml">>), "file")}
    [] state = "dirYaml" -> {Fact(ConfigDir \o <<name, ConfigYaml>>, "file")}
    [] state = "dirYml" -> {Fact(ConfigDir \o <<name, ConfigYml>>, "file")}
    [] state = "yamlAndYml" ->
         {Fact(Append(ConfigDir, name \o <<".", "yaml">>), "file"),
          Fact(Append(ConfigDir, name \o <<".", "yml">>), "file")}
    [] state = "yamlIsDir" ->
         {Fact(Append(ConfigDir, name \o <<".", "yaml">>), "dir")}

InitLookup ==
  /\ \E configName \in {AiSandbox, DefaultConfig, MyYaml},
        named, default \in ConfigFileStates, inCwd, unreadable \in BOOLEAN :
       /\ lookup = [NoLookup EXCEPT !.configName = configName]
       /\ hostFs =
            LET fs == HostOf(AtConfigName(configName, named)
                               \cup AtConfigName(DefaultConfig, default)
                               \cup (IF inCwd THEN {Fact(<<MyYaml>>, "file")}
                                     ELSE {}))
            IN  IF unreadable
                THEN WithErr(fs, Append(ConfigDir, DefaultConfig \o <<".", "yaml">>),
                             "io")
                ELSE fs
  /\ vfs = NoVfs
  /\ loaded = NotLoaded
  /\ scriptCall = NoScript
  /\ copied = NoCopy

\* getConfig(configName) is called.
GetConfig ==
  /\ lookup.status = "none"
  /\ lookup' = [lookup EXCEPT !.status = "running", !.depth = 1,
                              !.current = lookup.configName]
  /\ UNCHANGED <<ioVars, fsVars, locVars, shVars, scriptCall, copied>>

\* The body of the innermost call of getConfig: it returns what it loaded,
\* or null from its catch, or calls getConfig(this.defaultConfig); with no
\* room for that frame the call throws RangeError into the catch.  What the
\* innermost call returns every call below it returns.
GetConfigBody ==
  /\ lookup.status = "running"
  /\ LET configPath == FindConfigFile(hostFs, lookup.current)
     IN  IF configPath = NotFound
         THEN IF lookup.depth < MaxStack
              THEN lookup' = [lookup EXCEPT !.current = DefaultConfig,
                                            !.depth = lookup.depth + 1]
              ELSE lookup' = [lookup EXCEPT !.status = "returned",
                                            !.result = NotFound,
                                            !.exhausted = TRUE]
         ELSE IF hostFs[configPath].kind = "dir" \/ hostFs[configPath].err = "io"
         THEN lookup' = [lookup EXCEPT !.status = "returned",
                                       !.result = NotFound]
         ELSE lookup' = [lookup EXCEPT !.status = "returned",
                                       !.result = configPath]
  /\ UNCHANGED <<ioVars, fsVars, locVars, shVars, scriptCall, copied>>

NextLookup == GetConfig \/ GetConfigBody

InitLookupSpec == IdleIO /\ IdleLoc /\ IdleShell /\ InitLookup
SpecLookup == InitLookupSpec /\ [][NextLookup]_vars

InitFsSpec == IdleIO /\ InitFs /\ IdleLoc /\ IdleShell /\ IdleCalls
SpecFs == InitFsSpec /\ [][NextFs]_vars

NextLocate == ResolvePackage /\ UNCHANGED <<ioVars, shVars, callVars>>

InitLocateSpec == IdleIO /\ InitLocate /\ IdleShell /\ IdleCalls
SpecLocate == InitLocateSpec /\ [][NextLocate]_vars

RECURSIVE SumFed(_)
SumFed(rs) == IF rs = <<>> THEN 0 ELSE Len(Head(rs).fed) + SumFed(Tail(rs))

\* Any input: keystrokes and multi-character events.
NextIO ==
  \/ ReadLine /\ UNCHANGED <<fsVars, locVars, shVars, callVars>>
  \/ \E char \in Chunks :
       /\ SumFed(reads) < MaxEvents
       /\ Data(char)
       /\ UNCHANGED <<fsVars, locVars, shVars, callVars>>

InitIO == IdleIO /\ IdleFs /\ IdleLoc /\ IdleShell /\ IdleCalls
SpecIO == InitIO /\ [][NextIO]_vars

\* One line typed key by key.
NextIOLine ==
  \/ ReadLine /\ UNCHANGED <<fsVars, locVars, shVars, callVars>>
  \/ \E char \in LineKeys :
       /\ SumFed(reads) < MaxLineEvents
       /\ Data(char)
       /\ UNCHANGED <<fsVars, locVars, shVars, callVars>>

SpecIOLine == InitIO /\ [][NextIOLine]_vars

(***************************************************************************)
(* Claims about the line reader.                                           *)
(***************************************************************************)
Pending(r) == reads[r].status = "pending"
ReadIds == 1..Len(reads)

\* "h", "i", backspace, "i", newline, one keystroke per event.
EditedLine(bs) == <<(<<Key.h>>), <<Key.i>>, bs, <<Key.i>>, <<LF>>>>
IsEditedLine(fed) == fed = EditedLine(<<DEL>>) \/ fed = EditedLine(<<BS>>)

RECURSIVE Concat(_)
Concat(ss) == IF ss = <<>> THEN <<>> ELSE Head(ss) \o Concat(Tail(ss))

OnlyLetters(fed) == \A k \in 1..Len(fed) : fed[k] \in {<<Key.h>>, <<Key.i>>}

\* C3 as stated: a read fed "h", "i", backspace, "i", newline resolves exactly
\* once with "i", and a later read starts from an empty buffer.
C3_EditedLineYieldsI ==
  \A r \in ReadIds :
    IsEditedLine(reads[r].fed) =>
      /\ reads[r].status = "resolved"
      /\ reads[r].resolves = 1
      /\ reads[r].result = <<Key.i>>

\* C3 amended: a read fed "h", "i", backspace, "i", newline resolves exactly
\* once with "hi" (the backspace erases only the "i" before it), and a read
\* issued after it holds exactly the letters typed into it, none of the first.
C3_EditedLineYieldsHi ==
  \A r \in ReadIds :
    IsEditedLine(reads[r].fed) =>
      /\ reads[r].status = "resolved"
      /\ reads[r].resolves = 1
      /\ reads[r].result = <<Key.h, Key.i>>
      /\ \A q \in ReadIds :
           (q > r /\ OnlyLetters(reads[q].fed)) =>
             /\ Pending(q)
             /\ reads[q].input = Concat(reads[q].fed)

\* The line was read and a second, independent read has taken one key.
C3_Witness ==
  /\ Len(reads) = 2
  /\ IsEditedLine(reads[1].fed)
  /\ reads[1].result = <<Key.h, Key.i>>
  /\ reads[2].fed = <<(<<Key.h>>)>>
  /\ reads[2].input = <<Key.h>>

\* The step delivers the interrupt character to the pending read r.
Interrupts(r) ==
  /\ r \in ReadIds
  /\ Pending(r)
  /\ reads'[r].fed = Append(reads[r].fed, <<ETX>>)

\* C4: when Ctrl+C is delivered to a capturing read, whatever its buffer
\* holds, the read resolves (once) with the empty string, the terminal is back
\* in cooked mode, paused, and the listener is removed; a readLine issued
\* when no read is pending starts capturing from an empty buffer.
C4_InterruptStep ==
  /\ \A r \in ReadIds :
       Interrupts(r) =>
         /\ reads'[r].status = "resolved"
         /\ reads'[r].result = <<>>
         /\ reads'[r].resolves = 1
         /\ rawMode' = FALSE
         /\ flowing' = FALSE
         /\ \A k \in 1..Len(listeners') : listeners'[k] # r
  /\ (listeners = <<>> /\ Len(reads') = Len(reads) + 1) =>
       /\ reads'[Len(reads')].input = <<>>
       /\ reads'[Len(reads')].status = "pending"
       /\ rawMode' = TRUE
       /\ flowing' = TRUE
       /\ listeners' = <<Len(reads')>>

Visible(s) == \A k \in 1..Len(s) : Space <= s[k] /\ s[k] <= Tilde

\* C5: whatever events are delivered, events of several characters included,
\* the buffer and the result of every read hold only characters of " ".."~",
\* and nothing outside that range is echoed as typed text.
C5_BufferOnlyVisible ==
  \A r \in ReadIds : Visible(reads[r].input) /\ Visible(reads[r].result)

(***************************************************************************)
(* Claims about materializeTree (loadPythonModules, processDirectory).     *)
(***************************************************************************)
\* The names of p below root.
Rel(p, root) == SubSeq(p, Len(root) + 1, Len(p))
Hidden(p, root) ==
  \E k \in 1..Len(Rel(p, root)) :
    Len(Rel(p, root)[k]) > 0 /\ Head(Rel(p, root)[k]) = "."

\* The non-hidden .py files of the tree that are not below a hidden
\* directory.
Staged(fs, root) ==
  {p \in DOMAIN fs :
     /\ Below(p, root)
     /\ ~Hidden(p, root)
     /\ fs[p].kind = "file"
     /\ LET n == Basename(p)
        IN  Len(n) >= 2 /\ n[Len(n) - 1] = "." /\ n[Len(n)] = "py"}

\* An operation of the walk fails on the entry p.
Fails(fs, p) ==
  \/ fs[p].err = "stat"
  \/ fs[p].err # "none" /\ (fs[p].kind = "dir" \/ p \in Staged(fs, PkgRoot(fs)))

\* No operation fails on an entry the walk reaches.
Healthy(fs, root) ==
  \A p \in DOMAIN fs :
    (p = root \/ (Below(p, root) /\ ~Hidden(p, root))) => ~Fails(fs, p)

Mirrored(fs, root, files) == {<<Pkg>> \o Rel(p, root) : p \in files}
WrittenSet == {loaded.written[k] : k \in 1..Len(loaded.written)}

\* C6: on a tree where no operation fails, loadPythonModules writes exactly
\* the non-hidden .py files that are not below a hidden directory, each once
\* and at its mirrored path, and returns their number.
C6_TransfersExactlyStaged ==
  (loaded.status # "none" /\ PkgRoot(hostFs) # NotFound
     /\ Healthy(hostFs, PkgRoot(hostFs))) =>
    LET staged == Staged(hostFs, PkgRoot(hostFs))
    IN  /\ loaded.status = "returned"
        /\ loaded.count = Cardinality(staged)
        /\ Len(loaded.written) = Cardinality(staged)
        /\ WrittenSet = Mirrored(hostFs, PkgRoot(hostFs), staged)
        /\ vfs.files = WrittenSet

\* proj holds a.py and a hidden directory with a .py file in it: one file
\* is transferred.
C6_Witness ==
  /\ loaded.status = "returned"
  /\ loaded.count = 1
  /\ loaded.written = <<(<<Pkg, APy>>)>>
  /\ <<Pkg, DotXPy, APy>> \in DOMAIN hostFs
  /\ hostFs[<<Pkg, DotXPy>>].kind = "dir"
  /\ Healthy(hostFs, <<Pkg>>)

\* The entries the claim of C7 lets the walk lose: those an operation fails
\* on, and what lies below a directory it fails on.
Lost(fs, root, p) ==
  \E k \in (Len(root) + 1)..Len(p) : Fails(fs, SubSeq(p, 1, k))

\* C7: an error on one entry skips only that entry (and, for a directory,
\* what is below it): every other staged file of the tree is transferred
\* and counted, and the call returns.
C7_ErrorSkipsOnlyEntry ==
  (loaded.status # "none" /\ PkgRoot(hostFs) # NotFound
     /\ ~Fails(hostFs, PkgRoot(hostFs))) =>
    LET root == PkgRoot(hostFs)
        kept == {p \in Staged(hostFs, root) : ~Lost(hostFs, root, p)}
    IN  /\ loaded.status = "returned"
        /\ WrittenSet = Mirrored(hostFs, root, kept)
        /\ loaded.count = Cardinality(kept)

(***************************************************************************)
(* Claims about locateVirtualShellDirectory and the package name.          *)
(***************************************************************************)
Underscored(name) ==
  [k \in DOMAIN name |-> IF name[k] = "-" THEN "_" ELSE name[k]]
HasHyphen(name) == \E k \in DOMAIN name : name[k] = "-"
OnHost(p) == p \in DOMAIN hostFs
DirOnHost(p) == OnHost(p) /\ hostFs[p].kind = "dir"
Supplied == options.pythonModulePath
Fallbacks ==
  {<<ChukUS>>, <<DotDot, ChukUS>>, <<AppDir, NodeModules, ChukHy>>}
    \cup (IF env.CHUK_VIRTUAL_SHELL_PATH = Unset THEN {}
          ELSE {env.CHUK_VIRTUAL_SHELL_PATH})
PySource(name) ==
  Len(name) >= 2 /\ name[Len(name) - 1] = "." /\ name[Len(name)] = "py"
LooksLikePackage(p) ==
  /\ DirOnHost(p)
  /\ \E k \in DOMAIN hostFs[p].entries : PySource(hostFs[p].entries[k])
Attempted == (IF Supplied = Unset THEN {} ELSE {Supplied}) \cup Fallbacks

\* C8: locate applied to a supplied path that exists returns path/baseName
\* when baseName (the basename with hyphens replaced by underscores) is a
\* directory inside it and the supplied path itself in every other case; one
\* level only is collapsed and no fallback location is consulted.
C8_SuppliedPathCollapsesOneLevel ==
  (resolved.status # "none" /\ Supplied # Unset /\ OnHost(Supplied)) =>
    LET inner == Append(Supplied, Underscored(Basename(Supplied)))
    IN  resolved.moduleDir = IF DirOnHost(inner) THEN inner ELSE Supplied

\* C8 witness: "my-pkg" is supplied, holds the directory "my_pkg", a fallback
\* location holds a package too, and my-pkg/my_pkg is what was located.
C8_Witness ==
  /\ resolved.status = "ok"
  /\ Supplied = <<MyPkg>>
  /\ resolved.moduleDir = <<MyPkg, MyPkgUS>>
  /\ LooksLikePackage(<<ChukUS>>)

\* C9 (as stated): with no candidate supplied or the supplied one absent, and
\* no fallback location that exists and holds __init__.py or a .py file,
\* locate fails with an error whose message names every attempted location,
\* and nothing has been written to the virtual filesystem.
C9_ErrorNamesAttempted ==
  (/\ resolved.status # "none"
   /\ Supplied = Unset \/ ~OnHost(Supplied)
   /\ \A p \in Fallbacks : ~LooksLikePackage(p)) =>
    /\ resolved.status = "threw"
    /\ Attempted \subseteq resolved.error.names
    /\ vfs = NoVfs

\* C9 (amended): in that case locate fails with an Error whose message is the
\* fixed text "Error: could not find 'chuk_virtual_shell' Python module.
\* Please specify a valid path.", which names none of the attempted
\* locations, and nothing has been written to the virtual filesystem.
C9_FixedErrorNothingWritten ==
  (/\ resolved.status # "none"
   /\ Supplied = Unset \/ ~OnHost(Supplied)
   /\ \A p \in Fallbacks : ~LooksLikePackage(p)) =>
    /\ resolved.status = "threw"
    /\ resolved.error.text =
         "Error: could not find 'chuk_virtual_shell' Python module. Please specify a valid path."
    /\ resolved.error.names = {}
    /\ vfs = NoVfs
    /\ loaded.status = "none"

\* C9 witness: a path is supplied that is not on the host, a fallback
\* location exists as a directory without any .py file, and locate threw.
C9_Witness ==
  /\ resolved.status = "threw"
  /\ Supplied # Unset /\ ~OnHost(Supplied)
  /\ \E p \in Fallbacks : DirOnHost(p) /\ ~LooksLikePackage(p)
  /\ \A p \in Fallbacks : ~LooksLikePackage(p)

\* C10: for every resolved package the import name, used as the virtual
\* target directory, is the last segment of the resolved host directory with
\* every hyphen replaced by an underscore, and never contains a hyphen.
C10_ImportNameHyphenFolded ==
  resolved.status = "ok" =>
    /\ resolved.packageName = Underscored(Basename(resolved.moduleDir))
    /\ ~HasHyphen(resolved.packageName)
    /\ <<resolved.packageName>> \in vfs.dirs

(***************************************************************************)
(* Claims about runPyodideShell.                                           *)
(***************************************************************************)
StageIndex(stage) == CHOOSE i \in DOMAIN Stages : Stages[i] = stage
Before(e, i) == \E j \in 1..(i - 1) : log[j] = e

\* C1: the stages run in strict order and each stage has completed before
\* the next one starts; in particular the installation of the IO primitives
\* has completed before the bootstrap script is staged and before the entry
\* point is invoked.
C1_StagesInStrictOrder ==
  \A i \in DOMAIN log :
    log[i].event = "start" =>
      \A k \in 1..(StageIndex(log[i].stage) - 1) :
        Logged(log, Start(Stages[k])) => Before(Done(Stages[k]), i)

\* C2: if any stage fails (the first failure of the run), no later stage is
\* started and, once runPyodideShell has settled, it has rejected with the
\* error of that stage.
C2_FailureAbortsAndRejects ==
  \A i \in DOMAIN log :
    (log[i].event = "fail" /\ \A j \in 1..(i - 1) : log[j].event # "fail") =>
      /\ \A j \in DOMAIN log : j > i => log[j].event # "start"
      /\ pc \in {"done", "exited"} => outcome = Rejected(log[i].stage)

(***************************************************************************)
(* Claims about the bootstrap script.                                      *)
(***************************************************************************)
\* C11: when the bootstrap script is staged in a session, every placeholder
\* ${defaultSandbox} of the script body is replaced by the sandbox identity
\* supplied to the session, and by the literal "ai_sandbox" when none was
\* supplied.  Stated for the sessions index.js starts: parseArgs sets
\* sandboxName and never sets a defaultSandbox option.
C11_PlaceholderIsSessionSandbox ==
  (runtime.mainPy # <<>> /\ options.defaultSandbox = <<>>) =>
    \A k \in DOMAIN ScriptContent :
      ScriptContent[k] = [placeholder |-> TRUE, body |-> <<"defaultSandbox">>] =>
        runtime.mainPy[k] =
          [placeholder |-> FALSE,
           body |-> IF options.sandboxName # <<>> THEN options.sandboxName
                    ELSE <<"ai_sandbox">>]

Unknown(piece) ==
  piece.placeholder
    /\ piece.body # <<"defaultSandbox">>
    /\ piece.body # <<"options", ".", "defaultSandbox">>

\* C12 (as stated): processScriptContent leaves every placeholder ${name}
\* whose name is not exactly defaultSandbox unchanged, leaves the text outside
\* placeholders unchanged, and an unknown placeholder never causes an error.
C12_OnlyDefaultSandboxReplaced ==
  scriptCall.path # NotFound =>
    /\ scriptCall.status = "returned"
    /\ Len(scriptCall.processed) = Len(scriptCall.content)
    /\ \A k \in DOMAIN scriptCall.content :
         scriptCall.content[k].body # <<"defaultSandbox">> =>
           scriptCall.processed[k] = scriptCall.content[k]

\* C12 (amended): processScriptContent leaves every placeholder ${name} whose
\* name is neither defaultSandbox nor options.defaultSandbox unchanged,
\* leaves the text outside placeholders unchanged, and an unknown placeholder
\* never causes an error.
C12_UnknownPlaceholdersKept ==
  scriptCall.path # NotFound =>
    /\ scriptCall.status = "returned"
    /\ Len(scriptCall.processed) = Len(scriptCall.content)
    /\ \A k \in DOMAIN scriptCall.content :
         (~scriptCall.content[k].placeholder \/ Unknown(scriptCall.content[k]))
           => scriptCall.processed[k] = scriptCall.content[k]

\* C12 witness: a body with the unknown placeholder ${sandboxName} and a
\* known one has been processed.
C12_Witness ==
  /\ scriptCall.status = "returned"
  /\ \E k \in DOMAIN scriptCall.content : Unknown(scriptCall.content[k])
  /\ \E k \in DOMAIN scriptCall.content :
       scriptCall.content[k].placeholder /\ ~Unknown(scriptCall.content[k])

Requested == IF options.useEnhancedScript THEN EnhancedPy ELSE BasicPy
SearchOrder ==
  <<(<<AppDir, PythonScripts, Requested>>), <<PythonScripts, Requested>>,
    <<Requested>>, <<AppDir, Src, Requested>>>>
CustomExists ==
  options.customScriptPath # <<>> /\ OnHost(options.customScriptPath)
FirstOfRequested(k) ==
  OnHost(SearchOrder[k]) /\ \A j \in 1..(k - 1) : ~OnHost(SearchOrder[j])

\* C13 (as stated): getScriptPath returns the custom path whenever one is
\* configured and exists; otherwise the first existing location of the
\* requested variant, primary location first, then the alternates in order;
\* if no such location exists it fails.  The returned path exists.
C13_FailsWithoutRequestedVariant ==
  scriptCall.status # "none" =>
    /\ CustomExists => scriptCall.path = options.customScriptPath
    /\ \A k \in DOMAIN SearchOrder :
         (~CustomExists /\ FirstOfRequested(k)) =>
           scriptCall.path = SearchOrder[k]
    /\ (~CustomExists /\ \A k \in DOMAIN SearchOrder : ~OnHost(SearchOrder[k]))
         => scriptCall.status = "threw"
    /\ scriptCall.status = "returned" => OnHost(scriptCall.path)

\* C13 (amended): as stated, except that when no location of the requested
\* variant exists getScriptPath returns the primary location of the basic
\* script if that exists, and fails (with a plain Error) only otherwise.
C13_FallsBackToBasicScript ==
  scriptCall.status # "none" =>
    /\ CustomExists => scriptCall.path = options.customScriptPath
    /\ \A k \in DOMAIN SearchOrder :
         (~CustomExists /\ FirstOfRequested(k)) =>
           scriptCall.path = SearchOrder[k]
    /\ (~CustomExists /\ \A k \in DOMAIN SearchOrder : ~OnHost(SearchOrder[k]))
         => IF OnHost(<<AppDir, PythonScripts, BasicPy>>)
            THEN scriptCall.path = <<AppDir, PythonScripts, BasicPy>>
            ELSE scriptCall.status = "threw"
    /\ scriptCall.status = "returned" => OnHost(scriptCall.path)

\* C13 witness: the enhanced script is requested and is nowhere, no custom
\* script exists, and the basic script of the primary location is returned.
C13_Witness ==
  /\ scriptCall.status = "returned"
  /\ options.useEnhancedScript
  /\ ~CustomExists
  /\ \A k \in DOMAIN SearchOrder : ~OnHost(SearchOrder[k])
  /\ scriptCall.path = <<AppDir, PythonScripts, BasicPy>>

(***************************************************************************)
(* Claims about loadFolder.                                                *)
(***************************************************************************)
ConfigLoaded == \E i \in DOMAIN log : log[i] = [stage |-> "config", event |-> "done"]
ConfigFolder == ConfigFolderPath(hostFs, options, env)
IsUnder(p, root) == Len(p) > Len(root) /\ SubSeq(p, 1, Len(root)) = root
RelTo(p, root) == SubSeq(p, Len(root) + 1, Len(p))
HostFilesUnder(root) ==
  {p \in DOMAIN hostFs : IsUnder(p, root) /\ hostFs[p].kind = "file"}
VirtualFilesUnder(root) == {p \in vfs.files : IsUnder(p, root)}

\* C14 (as stated): loadFolder is non-recursive: it creates the target
\* virtual directory, transfers every file that is a direct entry of the
\* host folder, and writes nothing for entries below a subdirectory of it.
C14_LoadFolderDirectEntriesOnly ==
  ConfigLoaded =>
    /\ HomeConfig \in vfs.dirs
    /\ VirtualFilesUnder(HomeConfig) =
         {HomeConfig \o RelTo(p, ConfigFolder) :
            p \in {q \in HostFilesUnder(ConfigFolder) :
                     Len(q) = Len(ConfigFolder) + 1}}

\* C14 (amended): loadFolder is recursive: it creates the target virtual
\* directory and transfers every file of the host folder, at every depth, to
\* the mirrored path below the target.
C14_LoadFolderEveryDepth ==
  ConfigLoaded =>
    /\ HomeConfig \in vfs.dirs
    /\ VirtualFilesUnder(HomeConfig) =
         {HomeConfig \o RelTo(p, ConfigFolder) :
            p \in HostFilesUnder(ConfigFolder)}

\* C14 witness: the configuration folder holds a file and a subdirectory
\* with a file, and both files are in the virtual filesystem.
C14_Witness ==
  /\ ConfigLoaded
  /\ \E p \in HostFilesUnder(ConfigFolder) : Len(p) = Len(ConfigFolder) + 1
  /\ \E p \in VirtualFilesUnder(HomeConfig) : Len(p) = Len(HomeConfig) + 2

(***************************************************************************)
(* Claims about the content of transferred files.                          *)
(***************************************************************************)
\* C15: for every host file transferred by the tree walk (base64) or by
\* loadFolder (string literal), the content read back from the virtual
\* filesystem is byte-identical to the content of the host file.
C15_RoundTripByteIdentical ==
  copied.via # "none" => copied.readBack = copied.bytes

(***************************************************************************)
(* Claims about the terminal mode and about reads that overlap.            *)
(***************************************************************************)
PendingReads == {r \in DOMAIN reads : reads[r].status = "pending"}
ListenerIds == {listeners[k] : k \in DOMAIN listeners}
ResolvedInStep(r) == reads[r].status = "pending" /\ reads'[r].status = "resolved"

C16_Modes ==
  /\ rawMode <=> PendingReads # {}
  /\ ListenerIds = PendingReads
  /\ Len(listeners) = Cardinality(PendingReads)

C16_ModeStep ==
  rawMode' # rawMode =>
    \/ Len(reads') = Len(reads) + 1
    \/ \E r \in DOMAIN reads : ResolvedInStep(r)

\* C16: after any sequence of readLine calls and input, the terminal is in
\* raw mode exactly while a read is pending, the mode changes only when a
\* read starts or resolves, and an input listener is registered exactly
\* while a read is pending.
C16_RawModeExactlyWhilePending == [](C16_Modes) /\ [][C16_ModeStep]_vars

\* C16 witness: two reads were started, input was typed, both have resolved
\* and the terminal is back in cooked mode.
C16_Witness ==
  /\ Len(reads) = 2
  /\ PendingReads = {}
  /\ reads[1].fed # reads[2].fed
  /\ ~rawMode

\* C17 (as stated): at most one read captures at a time; a readLine called
\* while another read is pending does not become a second active capture.
C17_AtMostOneCapture ==
  Cardinality(PendingReads) <= 1 /\ Len(listeners) <= 1

C17_SharedStep ==
  /\ \A r \in DOMAIN reads :
       reads'[r].fed # reads[r].fed =>
         \E char \in Chunks :
           \A q \in PendingReads : reads'[q].fed = Append(reads[q].fed, char)
  /\ (\E r \in DOMAIN reads : ResolvedInStep(r)) =>
       \A q \in PendingReads : ResolvedInStep(q)

\* C17 (amended): nothing guards readLine: a readLine called while another
\* read is pending becomes a second capture next to the first; every input
\* event is then handed to every pending read, a line terminator or an
\* interrupt resolves all pending reads together, and each read resolves
\* once.
C17_OverlappingReadsShareInput ==
  [](\A r \in DOMAIN reads : reads[r].resolves <= 1) /\ [][C17_SharedStep]_vars

\* C17 witness: two reads were pending together and one event resolved both.
C17_Witness ==
  /\ Len(reads) = 2
  /\ reads[1].status = "resolved" /\ reads[2].status = "resolved"
  /\ reads[2].fed # <<>>

\* C18: a pending readLine stays pending only as long as the host has
\* delivered neither a line terminator nor the interrupt character, and a
\* read that has resolved has resolved once.
C18_PendingUntilTerminator ==
  \A r \in DOMAIN reads :
    /\ reads[r].status = "pending" =>
         \A k \in DOMAIN reads[r].fed :
           \A j \in DOMAIN reads[r].fed[k] : reads[r].fed[k][j] \notin {CR, LF, ETX}
    /\ reads[r].status = "resolved" => reads[r].resolves = 1

(***************************************************************************)
(* Claims about ConfigManager.getConfig.                                   *)
(***************************************************************************)
\* C19: getConfig terminates after a bounded number of lookups: it looks
\* up the named configuration, then at most once the default configuration,
\* and returns null when neither exists; it never runs out of call stack.
C19_BoundedLookups ==
  /\ lookup.depth <= 2
  /\ ~lookup.exhausted

====
